---------------------------- MODULE Spec2Model ----------------------------
(***************************************************************************)
(* Two HTTP services: web-service (front-end, src/web-service/app.py) and  *)
(* greeting-service (back-end, src/greeting-service/app.py).               *)
(*                                                                         *)
(* Spec          the front-end: concurrent GET / and GET /health requests  *)
(*               against an arbitrary upstream (time abstracted: a timeout *)
(*               is one of the failures the upstream call may end with).   *)
(* SpecTimed     one GET / request with the socket timers of               *)
(*               requests.get(..., timeout=5) made explicit.               *)
(* SpecGreeting  the back-end: GET /greet and GET /health.                 *)
(***************************************************************************)
EXTENDS Integers, Sequences, FiniteSets, TLC

VARIABLES
    BACKEND_URL,    \* web-service module global (app.py:9)
    pc,             \* per GET / request: "idle", "calling", "done"
    sock,           \* per request: state of the outbound socket
    hops,           \* per request: redirects followed inside requests.get
    attempts,       \* per request: HTTP requests sent to <BACKEND_URL>/greet
    upstream,       \* per request: what requests.get ended with
    result,         \* per request: what the handler produced
    healthResp,     \* last answer of the front-end's GET /health
    idle,           \* per request: time since the socket last made progress
    elapsed,        \* per request: time since requests.get was called
    nbytes,         \* per request: partial reads received on the socket
    GREETING_MSG,   \* greeting-service module global (app.py:8)
    hostname,       \* what socket.gethostname() returns in the back-end
    served          \* responses the back-end has produced, in order

webVars == <<BACKEND_URL, pc, sock, hops, attempts, upstream, result, healthResp>>
timeVars == <<idle, elapsed, nbytes>>
greetVars == <<GREETING_MSG, hostname, served>>
vars == <<BACKEND_URL, pc, sock, hops, attempts, upstream, result, healthResp,
          idle, elapsed, nbytes, GREETING_MSG, hostname, served>>

---------------------------------------------------------------------------
(* Bounds *)
MaxReq == 2          \* GET / requests the front-end handles concurrently
MaxRedirects == 2    \* redirects requests follows before TooManyRedirects
MaxBytes == 1        \* partial reads a slow upstream trickles per request
MaxServed == 4       \* back-end responses recorded

(* timeout=5 of requests.get *)
Timeout == 5

Requests == 1..MaxReq
TimedRequests == {1}

---------------------------------------------------------------------------
(* Python / JSON values *)
Absent == [t |-> "absent"]
PyNone == [t |-> "null"]
PyStrVal(s) == [t |-> "str", v |-> s]
JList == [t |-> "list"]
JObj(m, p, v) == [t |-> "obj", message |-> m, pod |-> p, version |-> v]

\* str(x) / f-string formatting of a value decoded from JSON
PyFormat(x) ==
    CASE x.t = "str" -> x.v
      [] x.t = "null" -> "None"
      [] x.t = "list" -> "[]"
      [] OTHER -> "{...}"

\* dict.get(key, default)
DictGet(d, key, default) ==
    LET val == CASE key = "message" -> d.message
                 [] key = "pod" -> d.pod
                 [] OTHER -> d.version
    IN IF val = Absent THEN default ELSE val

TextBody == [t |-> "text"]
JsonBody(val) == [t |-> "json", value |-> val]

Hello == PyStrVal("Hello from the Backend!")
Pod1 == PyStrVal("greeting-5d9c-abcde")
V3 == PyStrVal("v3")

ObjectBodies ==
    { JsonBody(JObj(m, p, v)) :
        <<m, p, v>> \in { <<Hello, Pod1, V3>>, <<Hello, Absent, V3>>,
                          <<Absent, Pod1, Absent>>, <<Absent, Absent, Absent>>,
                          <<PyNone, Pod1, V3>> } }
NonObjectBodies == { JsonBody(JList), JsonBody(PyStrVal("ok")) }
Bodies == {TextBody} \cup NonObjectBodies \cup ObjectBodies

---------------------------------------------------------------------------
(* Outcomes of requests.get *)
NoOutcome == [kind |-> "none"]
Exception(type, msg) == [kind |-> "exception", type |-> type, msg |-> msg]
Response(status, location, body) ==
    [kind |-> "response", status |-> status, location |-> location, body |-> body]

ConnectionErrors ==
    { Exception("ConnectionError", "Connection refused"),
      Exception("ConnectionError", "Name or service not known") }
ConnectTimeout == Exception("ConnectTimeout", "connect timeout=5")
ReadTimeout == Exception("ReadTimeout", "Read timed out. (read timeout=5)")
Timeouts == {ConnectTimeout, ReadTimeout}
TransportErrors == ConnectionErrors \cup Timeouts
TooManyRedirects == Exception("TooManyRedirects", "Exceeded redirects limit")

\* exception classes derived from requests.exceptions.RequestException
RequestExceptionTypes ==
    {"ConnectionError", "ConnectTimeout", "ReadTimeout", "TooManyRedirects",
     "HTTPError", "JSONDecodeError"}

\* final responses an upstream may give: any body with a status that
\* raise_for_status lets through, an error page with an error status
FinalResponses ==
    { Response(200, FALSE, b) : b \in Bodies }
    \cup { Response(300, FALSE, b) : b \in {TextBody, JsonBody(JObj(Hello, Pod1, V3))} }
    \cup { Response(s, FALSE, TextBody) : s \in {404, 503} }

---------------------------------------------------------------------------
(* The handlers as functions of what the upstream call ended with *)

\* Response.raise_for_status(): HTTPError for 4xx and 5xx, nothing otherwise
raise_for_status(resp) ==
    IF resp.status >= 400 /\ resp.status < 500
    THEN Exception("HTTPError", ToString(resp.status) \o " Client Error")
    ELSE IF resp.status >= 500 /\ resp.status < 600
    THEN Exception("HTTPError", ToString(resp.status) \o " Server Error")
    ELSE NoOutcome

\* Response.json(): the decoded value, or requests.exceptions.JSONDecodeError
\* (a RequestException since requests 2.27)
response_json(resp) ==
    IF resp.body.t = "json"
    THEN resp.body.value
    ELSE Exception("JSONDecodeError", "Expecting value: line 1 column 1 (char 0)")

NoResult == [kind |-> "none"]
\* an exception that leaves index(): no page of the handler's is returned
Unhandled(type) == [kind |-> "unhandled", exc |-> type]
Page(status, parts) == [kind |-> "page", status |-> status, page |-> parts]

MessageDiv == "<div class=message>"
PodLabel == "<strong>Backend Pod:</strong>"
ErrorHeading == "<h1>Error Connecting to Backend</h1>"
ReachLabel == "Could not reach the greeting-service at "
CauseLabel == "Error: "

\* the success page with the two values in each other's place
SuccessPage_swapped(message, pod) ==
    Page(200, << "<title>Microservices Demo</title>",
                 MessageDiv, PyFormat(pod), PodLabel, PyFormat(message) >>)

\* the success page (app.py:25-68), returned with Flask's default status 200
SuccessPage(message, pod) ==
    Page(200, << "<title>Microservices Demo</title>",
                 MessageDiv, PyFormat(message), PodLabel, PyFormat(pod) >>)

\* the error page naming the default address instead of the configured one
ErrorPage_default_url(url, e) ==
    Page(500, << "<title>Error</title>", ErrorHeading,
                 ReachLabel, "http://localhost:4001", CauseLabel, e.msg >>)

\* the except branch (app.py:70-82)
ErrorPage(url, e) ==
    Page(500, << "<title>Error</title>", ErrorHeading,
                 ReachLabel, url, CauseLabel, e.msg >>)

\* what propagates out of the try block when exception e is raised in it
Raise(url, e) ==
    IF e.type \in RequestExceptionTypes
    THEN ErrorPage(url, e)
    ELSE Unhandled(e.type)

\* index() from the return of requests.get on (app.py:18-82)
index(url, outcome) ==
    IF outcome.kind = "exception" THEN Raise(url, outcome)
    ELSE LET err == raise_for_status(outcome) IN
         IF err.kind = "exception" THEN Raise(url, err)
         ELSE LET data == response_json(outcome) IN
              IF "kind" \in DOMAIN data THEN Raise(url, data)
              ELSE IF data.t # "obj"
                   THEN Raise(url, Exception("AttributeError", "no attribute 'get'"))
                   ELSE SuccessPage(DictGet(data, "message", PyStrVal("No message")),
                                    DictGet(data, "pod", PyStrVal("unknown")))

\* health() of the front-end (app.py:84-87)
health == [body |-> "OK", status |-> 200]
NoHealth == [body |-> "", status |-> 0]

\* greet() of the back-end (app.py:10-21)
greet(msg, host) ==
    [path |-> "/greet", status |-> 200,
     body |-> JsonBody(JObj(PyStrVal(msg), PyStrVal(host), PyStrVal("v3")))]

\* health() of the back-end (app.py:23-26)
backend_health ==
    [path |-> "/health", status |-> 200, body |-> JsonBody(PyStrVal("healthy"))]

---------------------------------------------------------------------------
(* Initial states *)
BackendUrls == {"http://localhost:4001", "http://greeting-service:4001"}
GreetingMsgs == {"Hello from the Backend!", "Hi from v3", "Bonjour"}
Hostnames == {"greeting-5d9c-abcde", "greeting-5d9c-fghij", "localhost"}

InitWeb ==
    /\ pc = [r \in Requests |-> "idle"]
    /\ sock = [r \in Requests |-> "closed"]
    /\ hops = [r \in Requests |-> 0]
    /\ attempts = [r \in Requests |-> 0]
    /\ upstream = [r \in Requests |-> NoOutcome]
    /\ result = [r \in Requests |-> NoResult]
    /\ healthResp = NoHealth
    /\ idle = [r \in Requests |-> 0]
    /\ elapsed = [r \in Requests |-> 0]
    /\ nbytes = [r \in Requests |-> 0]

Init ==
    /\ BACKEND_URL \in BackendUrls
    /\ InitWeb
    /\ GREETING_MSG = "Hello from the Backend!"
    /\ hostname = "localhost"
    /\ served = << >>

InitGreeting ==
    /\ BACKEND_URL = "http://localhost:4001"
    /\ InitWeb
    /\ GREETING_MSG \in GreetingMsgs
    /\ hostname \in Hostnames
    /\ served = << >>

---------------------------------------------------------------------------
(* Front-end actions *)

\* GET / arrives; index() calls requests.get, which opens a connection
IndexCall(r) ==
    /\ pc[r] = "idle"
    /\ pc' = [pc EXCEPT ![r] = "calling"]
    /\ sock' = [sock EXCEPT ![r] = "connecting"]
    /\ attempts' = [attempts EXCEPT ![r] = 1]
    /\ UNCHANGED <<BACKEND_URL, hops, upstream, result, healthResp>>
    /\ UNCHANGED timeVars
    /\ UNCHANGED greetVars

\* the connection is established and the request is sent
Connected(r) ==
    /\ pc[r] = "calling"
    /\ sock[r] = "connecting"
    /\ sock' = [sock EXCEPT ![r] = "reading"]
    /\ idle' = [idle EXCEPT ![r] = 0]
    /\ UNCHANGED <<BACKEND_URL, pc, hops, attempts, upstream, result, healthResp>>
    /\ UNCHANGED <<elapsed, nbytes>>
    /\ UNCHANGED greetVars

\* index() keeping its result in a variable that all requests share
Finish_shared(r, o) ==
    /\ pc' = [pc EXCEPT ![r] = "done"]
    /\ sock' = [sock EXCEPT ![r] = "closed"]
    /\ upstream' = [upstream EXCEPT ![r] = o]
    /\ result' = [q \in Requests |->
                    IF q = r \/ pc[q] = "done"
                    THEN index(BACKEND_URL, o) ELSE result[q]]
    /\ UNCHANGED <<BACKEND_URL, hops, attempts, healthResp>>
    /\ UNCHANGED timeVars
    /\ UNCHANGED greetVars

\* index() ends: requests.get has ended with outcome o
Finish(r, o) ==
    /\ pc' = [pc EXCEPT ![r] = "done"]
    /\ sock' = [sock EXCEPT ![r] = "closed"]
    /\ upstream' = [upstream EXCEPT ![r] = o]
    /\ result' = [result EXCEPT ![r] = index(BACKEND_URL, o)]
    /\ UNCHANGED <<BACKEND_URL, hops, attempts, healthResp>>
    /\ UNCHANGED timeVars
    /\ UNCHANGED greetVars

\* a transport error answered with one more attempt before giving up
UpstreamFails_retry(r, e) ==
    /\ pc[r] = "calling"
    /\ sock[r] = (IF e = ReadTimeout THEN "reading" ELSE "connecting")
    /\ IF attempts[r] = 1 + hops[r]
       THEN /\ attempts' = [attempts EXCEPT ![r] = @ + 1]
            /\ sock' = [sock EXCEPT ![r] = "connecting"]
            /\ UNCHANGED <<BACKEND_URL, pc, hops, upstream, result, healthResp>>
            /\ UNCHANGED timeVars
            /\ UNCHANGED greetVars
       ELSE Finish(r, e)

\* requests.get raises a transport error
UpstreamFails(r, e) ==
    /\ pc[r] = "calling"
    /\ sock[r] = (IF e = ReadTimeout THEN "reading" ELSE "connecting")
    /\ Finish(r, e)

\* the upstream answers with a response that requests.get returns
UpstreamResponds(r, resp) ==
    /\ pc[r] = "calling"
    /\ sock[r] = "reading"
    /\ Finish(r, resp)

\* the upstream answers 302 with Location: /greet; requests follows it with
\* a new request, or gives up with TooManyRedirects
Redirected(r) ==
    /\ pc[r] = "calling"
    /\ sock[r] = "reading"
    /\ IF hops[r] < MaxRedirects
       THEN /\ hops' = [hops EXCEPT ![r] = @ + 1]
            /\ attempts' = [attempts EXCEPT ![r] = @ + 1]
            /\ sock' = [sock EXCEPT ![r] = "connecting"]
            /\ idle' = [idle EXCEPT ![r] = 0]
            /\ UNCHANGED <<BACKEND_URL, pc, upstream, result, healthResp>>
            /\ UNCHANGED <<elapsed, nbytes>>
            /\ UNCHANGED greetVars
       ELSE Finish(r, TooManyRedirects)

\* a health check that reports the back-end's state
Health_probing ==
    /\ healthResp' = IF \E r \in Requests : result[r].kind = "page" /\ result[r].status = 500
                     THEN [body |-> "backend down", status |-> 503]
                     ELSE health
    /\ UNCHANGED <<BACKEND_URL, pc, sock, hops, attempts, upstream, result>>
    /\ UNCHANGED timeVars
    /\ UNCHANGED greetVars

\* GET /health on the front-end
Health ==
    /\ healthResp' = health
    /\ UNCHANGED <<BACKEND_URL, pc, sock, hops, attempts, upstream, result>>
    /\ UNCHANGED timeVars
    /\ UNCHANGED greetVars

Next ==
    \/ \E r \in Requests : IndexCall(r)
    \/ \E r \in Requests : Connected(r)
    \/ \E r \in Requests : \E e \in TransportErrors : UpstreamFails(r, e)
    \/ \E r \in Requests : \E resp \in FinalResponses : UpstreamResponds(r, resp)
    \/ \E r \in Requests : Redirected(r)
    \/ Health

Spec == Init /\ [][Next]_vars

---------------------------------------------------------------------------
(* The socket timers of requests.get(url, timeout=5): the timeout bounds the *)
(* wait for the connection and each wait for bytes, not the whole call       *)

\* one time unit passes while request r waits on its socket
Tick(r) ==
    /\ pc[r] = "calling"
    /\ idle[r] < Timeout
    /\ idle' = [idle EXCEPT ![r] = @ + 1]
    /\ elapsed' = [elapsed EXCEPT ![r] = @ + 1]
    /\ UNCHANGED webVars
    /\ UNCHANGED nbytes
    /\ UNCHANGED greetVars

\* part of the response arrives: the read returns and the next one starts
RecvBytes(r) ==
    /\ pc[r] = "calling"
    /\ sock[r] = "reading"
    /\ nbytes[r] < MaxBytes
    /\ nbytes' = [nbytes EXCEPT ![r] = @ + 1]
    /\ idle' = [idle EXCEPT ![r] = 0]
    /\ UNCHANGED webVars
    /\ UNCHANGED elapsed
    /\ UNCHANGED greetVars

\* the socket has made no progress for Timeout: requests.get raises
TimeoutExpires(r) ==
    /\ pc[r] = "calling"
    /\ idle[r] = Timeout
    /\ Finish(r, IF sock[r] = "connecting" THEN ConnectTimeout ELSE ReadTimeout)

NextTimed ==
    \/ \E r \in TimedRequests : IndexCall(r)
    \/ \E r \in TimedRequests : Connected(r)
    \/ \E r \in TimedRequests : \E e \in ConnectionErrors : UpstreamFails(r, e)
    \/ \E r \in TimedRequests : \E resp \in FinalResponses : UpstreamResponds(r, resp)
    \/ \E r \in TimedRequests : Redirected(r)
    \/ \E r \in TimedRequests : Tick(r)
    \/ \E r \in TimedRequests : RecvBytes(r)
    \/ \E r \in TimedRequests : TimeoutExpires(r)

SpecTimed == Init /\ [][NextTimed]_vars

---------------------------------------------------------------------------
(* Back-end actions *)

\* a greeting handler that rewrites the configured text once it has answered
Greet_rewriting ==
    /\ Len(served) < MaxServed
    /\ served' = Append(served, greet(GREETING_MSG, hostname))
    /\ GREETING_MSG' = GREETING_MSG \o "!"
    /\ UNCHANGED hostname
    /\ UNCHANGED webVars
    /\ UNCHANGED timeVars

\* GET /greet on the back-end
Greet ==
    /\ Len(served) < MaxServed
    /\ served' = Append(served, greet(GREETING_MSG, hostname))
    /\ UNCHANGED <<GREETING_MSG, hostname>>
    /\ UNCHANGED webVars
    /\ UNCHANGED timeVars

\* GET /health on the back-end
BackendHealth ==
    /\ Len(served) < MaxServed
    /\ served' = Append(served, backend_health)
    /\ UNCHANGED <<GREETING_MSG, hostname>>
    /\ UNCHANGED webVars
    /\ UNCHANGED timeVars

NextGreeting ==
    \/ Greet
    \/ BackendHealth

SpecGreeting == InitGreeting /\ [][NextGreeting]_vars

---------------------------------------------------------------------------
(* Properties *)

Range(seq) == { seq[i] : i \in DOMAIN seq }
\* the part of a page that follows a label
Shown(page, label) ==
    page[(CHOOSE i \in 1..(Len(page) - 1) : page[i] = label) + 1]

Done(r) == pc[r] = "done"
GotResponse(r) == Done(r) /\ upstream[r].kind = "response"
SuccessStatus(st) == st >= 200 /\ st <= 299
IsObjectBody(b) == b.t = "json" /\ b.value.t = "obj"
IsErrPage(res) ==
    res.kind = "page" /\ res.status = 500 /\ ErrorHeading \in Range(res.page)
IsOkPage(res) ==
    res.kind = "page" /\ res.status = 200 /\ MessageDiv \in Range(res.page)

\* C1: every finished GET / has produced either the success page with
\* status 200 or the error page with status 500, and no exception has left
\* the handler.
C1_OkOrErr ==
    \A r \in Requests : Done(r) => (IsOkPage(result[r]) \/ IsErrPage(result[r]))

\* C2: a success status whose body is not a JSON object ends in the error
\* page with status 500, not in an unhandled exception.
C2_MalformedIsErr ==
    \A r \in Requests :
        (GotResponse(r) /\ SuccessStatus(upstream[r].status)
            /\ ~IsObjectBody(upstream[r].body))
        => IsErrPage(result[r])

\* C3: when the back-end is unreachable (connection refused, DNS failure,
\* timeout) GET / answers 500 with an error page that contains the
\* configured back-end address and the cause string of the failure.
C3_UnreachableIsErr ==
    \A r \in Requests :
        (Done(r) /\ upstream[r] \in TransportErrors)
        => /\ IsErrPage(result[r])
           /\ BACKEND_URL \in Range(result[r].page)
           /\ Shown(result[r].page, ReachLabel) = BACKEND_URL
           /\ Shown(result[r].page, CauseLabel) = upstream[r].msg
           /\ upstream[r].msg # ""

C3_Witness ==
    /\ \E r \in Requests : Done(r) /\ upstream[r] \in ConnectionErrors
    /\ \E r \in Requests : Done(r) /\ upstream[r] \in Timeouts
    /\ BACKEND_URL = "http://greeting-service:4001"

\* C4: a non-success status from the back-end ends in the error page with
\* status 500, never in 200 and never in the back-end's own status.
C4_NonSuccessIsErr ==
    \A r \in Requests :
        (GotResponse(r) /\ ~SuccessStatus(upstream[r].status))
        => IsErrPage(result[r])

\* C5: for a success status with a JSON object as body, GET / answers 200
\* with a page that shows the body's message, or "No message" when the body
\* has none, and the body's pod, or "unknown" when the body has none.
C5_ShowsMessageAndPod ==
    \A r \in Requests :
        (GotResponse(r) /\ SuccessStatus(upstream[r].status)
            /\ IsObjectBody(upstream[r].body))
        => LET d == upstream[r].body.value IN
           /\ IsOkPage(result[r])
           /\ Shown(result[r].page, MessageDiv) =
                (IF d.message = Absent THEN "No message"
                 ELSE IF d.message = PyNone THEN "None" ELSE d.message.v)
           /\ Shown(result[r].page, PodLabel) =
                (IF d.pod = Absent THEN "unknown"
                 ELSE IF d.pod = PyNone THEN "None" ELSE d.pod.v)

C5_Witness ==
    /\ \E r \in Requests :
          /\ GotResponse(r) /\ upstream[r].status = 200
          /\ IsObjectBody(upstream[r].body)
          /\ upstream[r].body.value.message = Absent
          /\ upstream[r].body.value.pod = Absent
          /\ IsOkPage(result[r])
    /\ \E r \in Requests :
          /\ GotResponse(r) /\ upstream[r].status = 200
          /\ IsObjectBody(upstream[r].body)
          /\ upstream[r].body.value.message = Hello
          /\ upstream[r].body.value.pod = Pod1
          /\ IsOkPage(result[r])

\* C6: the outbound call never lasts longer than the timeout, counted from
\* its start: a request still waiting for the back-end has waited at most
\* Timeout, and a finished one ended within Timeout.
C6_CallWithinTimeout ==
    \A r \in Requests : pc[r] # "idle" => elapsed[r] <= Timeout

C8_HealthAlwaysOk ==
    /\ [](healthResp \in {NoHealth, [body |-> "OK", status |-> 200]})
    /\ [][healthResp' # healthResp =>
            (attempts' = attempts /\ sock' = sock /\ pc' = pc)]_vars

C8_Witness ==
    /\ healthResp = [body |-> "OK", status |-> 200]
    /\ \E r \in Requests : pc[r] = "calling"
    /\ \E r \in Requests : Done(r) /\ IsErrPage(result[r])

\* C9: all answers of the back-end's GET /greet within one process lifetime
\* carry the same message, the greeting configured at startup, and the same
\* version, whatever is served between them; no handler changes the
\* configured greeting.
C9_GreetStable ==
    /\ [](\A i, j \in DOMAIN served :
            (served[i].path = "/greet" /\ served[j].path = "/greet")
            => /\ served[i].body.value.message = served[j].body.value.message
               /\ served[i].body.value.version = served[j].body.value.version
               /\ served[i].body.value.message.v = GREETING_MSG)
    /\ [][GREETING_MSG' = GREETING_MSG]_vars

C9_Witness ==
    /\ Len(served) >= 3
    /\ served[1].path = "/greet"
    /\ served[2].path = "/health"
    /\ served[3].path = "/greet"
    /\ GREETING_MSG = "Hi from v3"

\* C10: the result of a GET / depends only on what its own upstream call
\* ended with and on the configured address: two requests whose calls ended
\* alike have the same result, a result once produced is not changed by any
\* other request, and no step changes the configured address.
C10_Isolated ==
    /\ [](\A r, q \in Requests :
            (Done(r) /\ Done(q) /\ upstream[r] = upstream[q])
            => result[r] = result[q])
    /\ [][/\ BACKEND_URL' = BACKEND_URL
          /\ \A r \in Requests :
                Done(r) => (result'[r] = result[r] /\ upstream'[r] = upstream[r])]_vars

C10_Witness ==
    \E r, q \in Requests :
        /\ Done(r) /\ upstream[r] = ReadTimeout /\ IsErrPage(result[r])
        /\ Done(q) /\ IsOkPage(result[q])

====
